---- MODULE Spec2Model ----
(***************************************************************************)
(* Model of vulkan-triangle: TriangleApplication (setup, frame loop,       *)
(* teardown) and main.  The CPU thread is the program counter pc; the      *)
(* graphics queue, the present queue and the presentation engine are       *)
(* asynchronous actions that honour the semaphores and fences the code     *)
(* hands to vkAcquireNextImageKHR, vkQueueSubmit and vkQueuePresentKHR.    *)
(***************************************************************************)
EXTENDS Integers, Sequences, FiniteSets, TLC

\* ---------------------------------------------------------------- bounds
MaxImages == 3      \* swapchain images the platform may report
MaxIter == 5        \* drawFrame iterations explored
MaxFrames == 3      \* drawFrame iterations of the short runs
MaxGpus == 2        \* physical devices enumerated
MaxFamilies == 2    \* queue families per physical device
UintBits == 16      \* width of uint32_t in the model (TLC integers are 32-bit signed)

\* ------------------------------------------------------ program constants
MAX_FRAMES_IN_FLIGHT == 2
VK_NULL_HANDLE == 0
EXIT_SUCCESS == 0
EXIT_FAILURE == 1
WIDTH == 800
HEIGHT == 600
\* the largest uint32_t, at the width of the model
UINT32_MAX == 2 ^ UintBits - 1

Slots == 0 .. (MAX_FRAMES_IN_FLIGHT - 1)
\* handle of the fence created for slot i (handles are non-null)
FenceOf(i) == i + 1
Fences == {FenceOf(i) : i \in Slots}

VARIABLES
    pc,                       \* position of the CPU thread
    enableValidationLayers,   \* build switch (NDEBUG)
    twin,                     \* outcomes the build with the other setting of the switch
                              \* has on the same inputs, where the two are compared
    gpus,                     \* what vkEnumeratePhysicalDevices reports
    physicalDevice,           \* index into gpus, VK_NULL_HANDLE when none
    created,                  \* setup steps that returned, in order
    imageCount,               \* swapChainImages.size()
    surface,                  \* what the surface reports for the selected device
    logicalDevice,            \* member device: its queue requests, layers and
                              \* the two queue handles retrieved; <<>> before creation
    createInfo,               \* the VkSwapchainCreateInfoKHR createSwapChain built
    swapChainImageViews,      \* per view: the swapchain image it views
    swapChainFramebuffers,    \* per framebuffer: the image view attached to it
    commandBuffers,           \* per command buffer: the framebuffer it renders into
    currentFrame,
    imageIndex,               \* local of drawFrame; -1 when the iteration has not set it
    imagesInFlight,           \* per image: a fence handle or VK_NULL_HANDLE
    fenceSignaled,            \* state of each inFlightFences[i], by handle
    imageAvailableSemaphore,  \* per slot: signaled?
    renderFinishedSemaphore,  \* per slot: signals no wait has consumed yet (0: unsignaled)
    graphicsQueue,            \* submitted batches not yet completed
    presentQueue,             \* presentation requests not yet processed (FIFO)
    acquirePending,           \* acquires whose semaphore the engine has yet to signal
    imageOwner,               \* per image: "free", "application" or "presented" (request queued)
    closeRequested,           \* the window's should-close flag
    closeObservedAt,          \* frameNo when the loop condition saw the flag, else -1
    waitIdleReturned,         \* vkDeviceWaitIdle has returned
    destroyed,                \* objects destroyed by cleanup, in order
    exitStatus,               \* -1 while running
    result,                   \* VkResult an acquire or present call just returned and
                              \* the code drops; "none" once the next statement runs
    frameNo,                  \* completed drawFrame iterations
    slotsUsed,                \* slot of every started iteration, in order
    trace,                    \* calls made by the running iteration, in order
    availSignaled,            \* frames whose acquire semaphore has been signaled
    writesBegun,              \* frames whose color writes have begun
    completed,                \* frames whose submission has completed
    presentBegun              \* frames whose presentation has begun

vars == <<pc, enableValidationLayers, twin, gpus, physicalDevice, created, imageCount,
          surface, logicalDevice, createInfo, swapChainImageViews, swapChainFramebuffers,
          commandBuffers,
          currentFrame, imageIndex, imagesInFlight, fenceSignaled,
          imageAvailableSemaphore, renderFinishedSemaphore, graphicsQueue,
          presentQueue, acquirePending, imageOwner, closeRequested, closeObservedAt,
          waitIdleReturned, destroyed, exitStatus, result, frameNo, slotsUsed,
          trace, availSignaled, writesBegun, completed, presentBegun>>

gpuVars == <<fenceSignaled, imageAvailableSemaphore, renderFinishedSemaphore,
             graphicsQueue, presentQueue, acquirePending, imageOwner, availSignaled,
             writesBegun, completed, presentBegun>>
frameVars == <<currentFrame, imageIndex, imagesInFlight, result, frameNo,
               slotsUsed, trace>>
imageVars == <<swapChainImageViews, swapChainFramebuffers, commandBuffers>>
setupVars == <<enableValidationLayers, gpus, physicalDevice, created, imageCount,
               surface, logicalDevice, createInfo, imageVars>>
exitVars == <<closeRequested, closeObservedAt, waitIdleReturned, destroyed, exitStatus>>

\* ------------------------------------------------------- device selection
\* A physical device as the driver reports it: its queue families
\* (VkQueueFamilyProperties plus surface support), whether it lists the
\* swapchain extension, and how many surface formats and present modes it has.
QueueFamilies == [queueCount : 0 .. 1, graphics : BOOLEAN, present : BOOLEAN]

\* QueueFamilyIndices: an empty optional is <<>>, a set one is <<i>>
isComplete(indices) == indices.graphicsFamily # <<>> /\ indices.presentFamily # <<>>

\* the loop of findQueueFamilies without its break
RECURSIVE findLoopNoBreak(_, _, _)
findLoopNoBreak(families, i, indices) ==
    IF i >= Len(families) THEN indices
    ELSE LET f == families[i + 1]
             g == IF f.queueCount > 0 /\ f.graphics
                  THEN [indices EXCEPT !.graphicsFamily = <<i>>] ELSE indices
             p == IF f.queueCount > 0 /\ f.present
                  THEN [g EXCEPT !.presentFamily = <<i>>] ELSE g
         IN findLoopNoBreak(families, i + 1, [p EXCEPT !.examined = i + 1])

\* the loop of findQueueFamilies from family i on; examined counts the
\* families the loop body has run for (one
\* vkGetPhysicalDeviceSurfaceSupportKHR call each)
RECURSIVE findLoop(_, _, _)
findLoop(families, i, indices) ==
    IF i >= Len(families) THEN indices
    ELSE LET f == families[i + 1]
             g == IF f.queueCount > 0 /\ f.graphics
                  THEN [indices EXCEPT !.graphicsFamily = <<i>>] ELSE indices
             p == IF f.queueCount > 0 /\ f.present
                  THEN [g EXCEPT !.presentFamily = <<i>>] ELSE g
             q == [p EXCEPT !.examined = i + 1]
         IN IF isComplete(q) THEN q ELSE findLoop(families, i + 1, q)

\* the loop's result for a device, with the number of families examined
findQueueFamiliesLoop(device) ==
    findLoop(device.families, 0,
             [graphicsFamily |-> <<>>, presentFamily |-> <<>>, examined |-> 0])

findQueueFamilies(device) ==
    LET r == findQueueFamiliesLoop(device)
    IN [graphicsFamily |-> r.graphicsFamily, presentFamily |-> r.presentFamily]

checkDeviceExtensionSupport(device) == device.swapchainExtension

\* isDeviceSuitable without the swapchain support query
isDeviceSuitableNoSwapChain(device) ==
    isComplete(findQueueFamilies(device)) /\ checkDeviceExtensionSupport(device)

isDeviceSuitable(device) ==
    LET indices == findQueueFamilies(device)
        extensionsSupported == checkDeviceExtensionSupport(device)
        swapChainAdequate == IF extensionsSupported
                             THEN device.formats # 0 /\ device.presentModes # 0
                             ELSE FALSE
    IN isComplete(indices) /\ extensionsSupported /\ swapChainAdequate

\* the loop of pickPhysicalDevice without its break: the last suitable device wins
RECURSIVE pickLoopNoBreak(_, _, _)
pickLoopNoBreak(devices, k, chosen) ==
    IF k > Len(devices) THEN chosen
    ELSE pickLoopNoBreak(devices, k + 1, IF isDeviceSuitable(devices[k]) THEN k ELSE chosen)

\* the loop of pickPhysicalDevice: handle (1-based position) of the chosen device
RECURSIVE pickLoop(_, _, _)
pickLoop(devices, k, chosen) ==
    IF k > Len(devices) THEN chosen
    ELSE IF isDeviceSuitable(devices[k]) THEN k
    ELSE pickLoop(devices, k + 1, chosen)


pickPhysicalDeviceHandle(devices) == pickLoop(devices, 1, VK_NULL_HANDLE)

\* ------------------------------------------------- swapchain configuration
Min(a, b) == IF a < b THEN a ELSE b
Max(a, b) == IF a > b THEN a ELSE b

\* the image count without the extra image
imageCountNoExtra(capabilities) ==
    IF capabilities.maxImageCount > 0 /\ capabilities.minImageCount > capabilities.maxImageCount
    THEN capabilities.maxImageCount
    ELSE capabilities.minImageCount

\* the image count without the cap
imageCountUncapped(capabilities) == (capabilities.minImageCount + 1) % (UINT32_MAX + 1)

\* createSwapChain: uint32_t imageCount = minImageCount + 1, capped by a
\* maxImageCount other than 0
imageCountFor(capabilities) ==
    LET count == (capabilities.minImageCount + 1) % (UINT32_MAX + 1)
    IN IF capabilities.maxImageCount > 0 /\ count > capabilities.maxImageCount
       THEN capabilities.maxImageCount
       ELSE count

PreferredFormat == [format |-> "VK_FORMAT_B8G8R8A8_SRGB",
                    colorSpace |-> "VK_COLOR_SPACE_SRGB_NONLINEAR_KHR"]

\* the loop of chooseSwapSurfaceFormat comparing the format alone
RECURSIVE formatLoopAnyColorSpace(_, _)
formatLoopAnyColorSpace(availableFormats, k) ==
    IF k > Len(availableFormats) THEN availableFormats[1]
    ELSE IF availableFormats[k].format = PreferredFormat.format THEN availableFormats[k]
    ELSE formatLoopAnyColorSpace(availableFormats, k + 1)

\* the loop of chooseSwapSurfaceFormat and the return that follows it
RECURSIVE formatLoop(_, _)
formatLoop(availableFormats, k) ==
    IF k > Len(availableFormats) THEN availableFormats[1]
    ELSE IF /\ availableFormats[k].format = PreferredFormat.format
            /\ availableFormats[k].colorSpace = PreferredFormat.colorSpace
         THEN availableFormats[k]
    ELSE formatLoop(availableFormats, k + 1)

chooseSwapSurfaceFormat(availableFormats) == formatLoop(availableFormats, 1)

\* the loop of chooseSwapPresentMode falling back to IMMEDIATE
RECURSIVE presentModeLoopImmediate(_, _)
presentModeLoopImmediate(availablePresentModes, k) ==
    IF k > Len(availablePresentModes) THEN "VK_PRESENT_MODE_IMMEDIATE_KHR"
    ELSE IF availablePresentModes[k] = "VK_PRESENT_MODE_MAILBOX_KHR"
         THEN availablePresentModes[k]
    ELSE presentModeLoopImmediate(availablePresentModes, k + 1)

\* the loop of chooseSwapPresentMode and the return that follows it
RECURSIVE presentModeLoop(_, _)
presentModeLoop(availablePresentModes, k) ==
    IF k > Len(availablePresentModes) THEN "VK_PRESENT_MODE_FIFO_KHR"
    ELSE IF availablePresentModes[k] = "VK_PRESENT_MODE_MAILBOX_KHR"
         THEN availablePresentModes[k]
    ELSE presentModeLoop(availablePresentModes, k + 1)

\* chooseSwapPresentMode looking at the first mode only
chooseSwapPresentModeFirstOnly(availablePresentModes) ==
    presentModeLoop(SubSeq(availablePresentModes, 1, 1), 1)

chooseSwapPresentMode(availablePresentModes) == presentModeLoop(availablePresentModes, 1)

\* chooseSwapExtent without the clamp
chooseSwapExtentNoClamp(capabilities) ==
    IF capabilities.currentExtent.width # UINT32_MAX
    THEN capabilities.currentExtent
    ELSE [width |-> WIDTH, height |-> HEIGHT]

chooseSwapExtent(capabilities) ==
    IF capabilities.currentExtent.width # UINT32_MAX
    THEN capabilities.currentExtent
    ELSE [width |-> Max(capabilities.minImageExtent.width,
                        Min(capabilities.maxImageExtent.width, WIDTH)),
          height |-> Max(capabilities.minImageExtent.height,
                         Min(capabilities.maxImageExtent.height, HEIGHT))]

\* createSwapChain declaring exclusive sharing whatever the families
sharingExclusive(indices) ==
    [imageSharingMode |-> "VK_SHARING_MODE_EXCLUSIVE",
     queueFamilyIndexCount |-> 0, pQueueFamilyIndices |-> <<>>]

\* createSwapChain: the sharing mode for the two queue families
sharingFor(indices) ==
    IF indices.graphicsFamily # indices.presentFamily
    THEN [imageSharingMode |-> "VK_SHARING_MODE_CONCURRENT",
          queueFamilyIndexCount |-> 2,
          pQueueFamilyIndices |-> indices.graphicsFamily \o indices.presentFamily]
    ELSE [imageSharingMode |-> "VK_SHARING_MODE_EXCLUSIVE",
          queueFamilyIndexCount |-> 0, pQueueFamilyIndices |-> <<>>]

\* createSwapChain: the VkSwapchainCreateInfoKHR built from the surface's
\* report and the queue families of the selected device
SwapchainCreateInfo(swapChainSupport, indices) ==
    LET surfaceFormat == chooseSwapSurfaceFormat(swapChainSupport.formats)
        presentMode == chooseSwapPresentMode(swapChainSupport.presentModes)
        extent == chooseSwapExtent(swapChainSupport.capabilities)
        sharing == sharingFor(indices)
    IN [minImageCount |-> imageCountFor(swapChainSupport.capabilities),
        imageFormat |-> surfaceFormat.format,
        imageColorSpace |-> surfaceFormat.colorSpace,
        imageExtent |-> extent,
        imageSharingMode |-> sharing.imageSharingMode,
        queueFamilyIndexCount |-> sharing.queueFamilyIndexCount,
        pQueueFamilyIndices |-> sharing.pQueueFamilyIndices,
        presentMode |-> presentMode]

\* ------------------------------------------------------------------ setup
\* initVulkan with createFramebuffers called before createRenderPass
SetupOrderFramebuffersFirst ==
    <<"createInstance", "setupDebugCallback", "createSurface",
      "pickPhysicalDevice", "createLogicalDevice", "createSwapChain",
      "createImageViews", "createFramebuffers", "createGraphicsPipeline",
      "createRenderPass", "createCommandPool", "createCommandBuffers",
      "createSyncObjects">>

\* TriangleApplication::initVulkan: the calls, in order
SetupOrder == <<"createInstance", "setupDebugCallback", "createSurface",
                "pickPhysicalDevice", "createLogicalDevice", "createSwapChain",
                "createImageViews", "createRenderPass", "createGraphicsPipeline",
                "createFramebuffers", "createCommandPool", "createCommandBuffers",
                "createSyncObjects">>
SetupSteps == {SetupOrder[k] : k \in 1 .. Len(SetupOrder)}
StepNo(s) == CHOOSE k \in 1 .. Len(SetupOrder) : SetupOrder[k] = s

\* the setup calls whose objects a setup call reads: the members each create
\* function passes to its Vulkan calls (instance, surface, physicalDevice,
\* device, swapChainImages, swapChainImageFormat, swapChainExtent,
\* swapChainImageViews, renderPass, graphicsPipeline, swapChainFramebuffers,
\* commandPool)
BuiltFrom(s) ==
    CASE s = "createInstance" -> {}
      [] s = "setupDebugCallback" -> {"createInstance"}
      [] s = "createSurface" -> {"createInstance"}
      [] s = "pickPhysicalDevice" -> {"createInstance", "createSurface"}
      [] s = "createLogicalDevice" -> {"createSurface", "pickPhysicalDevice"}
      [] s = "createSwapChain" ->
           {"createSurface", "pickPhysicalDevice", "createLogicalDevice"}
      [] s = "createImageViews" -> {"createLogicalDevice", "createSwapChain"}
      [] s = "createRenderPass" -> {"createLogicalDevice", "createSwapChain"}
      [] s = "createGraphicsPipeline" ->
           {"createLogicalDevice", "createSwapChain", "createRenderPass"}
      [] s = "createFramebuffers" ->
           {"createLogicalDevice", "createSwapChain", "createImageViews",
            "createRenderPass"}
      [] s = "createCommandPool" ->
           {"createSurface", "pickPhysicalDevice", "createLogicalDevice"}
      [] s = "createCommandBuffers" ->
           {"createLogicalDevice", "createSwapChain", "createRenderPass",
            "createGraphicsPipeline", "createFramebuffers", "createCommandPool"}
      [] s = "createSyncObjects" -> {"createLogicalDevice", "createSwapChain"}

\* the objects a setup call that returned has created, as <<kind, index>>;
\* pickPhysicalDevice selects a handle and createCommandBuffers allocates from
\* the command pool, neither creates an object with a destroy call of its own
CreatedBy(s) ==
    CASE s = "createInstance" -> {<<"instance", 0>>}
      [] s = "setupDebugCallback" ->
           IF enableValidationLayers THEN {<<"debugMessenger", 0>>} ELSE {}
      [] s = "createSurface" -> {<<"surface", 0>>}
      [] s = "createLogicalDevice" -> {<<"device", 0>>}
      [] s = "createSwapChain" -> {<<"swapChain", 0>>}
      [] s = "createImageViews" ->
           {<<"imageView", k - 1>> : k \in 1 .. Len(swapChainImageViews)}
      [] s = "createRenderPass" -> {<<"renderPass", 0>>}
      [] s = "createGraphicsPipeline" ->
           {<<"pipelineLayout", 0>>, <<"graphicsPipeline", 0>>}
      [] s = "createFramebuffers" ->
           {<<"framebuffer", k - 1>> : k \in 1 .. Len(swapChainFramebuffers)}
      [] s = "createCommandPool" -> {<<"commandPool", 0>>}
      [] s = "createSyncObjects" ->
           UNION {{<<"imageAvailableSemaphore", i>>, <<"renderFinishedSemaphore", i>>,
                   <<"inFlightFence", i>>} : i \in Slots}
      [] OTHER -> {}

\* TriangleApplication::run: what follows a setup call that returned
AfterSetup(s) ==
    IF StepNo(s) < Len(SetupOrder) THEN SetupOrder[StepNo(s) + 1] ELSE "mainLoop"

\* setup calls with no state of their own in this model: each throws
\* std::runtime_error when its Vulkan call does not return VK_SUCCESS
PlainSteps == SetupSteps \ {"createInstance", "setupDebugCallback", "pickPhysicalDevice",
                            "createLogicalDevice", "createSwapChain", "createImageViews",
                            "createFramebuffers", "createCommandBuffers",
                            "createSyncObjects"}

\* representative platforms for a whole run: no GPU, an unsuitable GPU, an
\* unsuitable GPU followed by a suitable one
GraphicsOnly == [queueCount |-> 1, graphics |-> TRUE, present |-> FALSE]
PresentOnly == [queueCount |-> 1, graphics |-> FALSE, present |-> TRUE]
SuitableGpu == [families |-> <<GraphicsOnly, PresentOnly>>, swapchainExtension |-> TRUE,
                formats |-> 1, presentModes |-> 1]
UnsuitableGpu == [families |-> <<GraphicsOnly, PresentOnly>>, swapchainExtension |-> FALSE,
                  formats |-> 0, presentModes |-> 0]
RunPlatforms == {<<>>, <<UnsuitableGpu>>, <<UnsuitableGpu, SuitableGpu>>}

\* the surface of a whole run: one format, FIFO only, a fixed extent, and a
\* swapchain of at least one image
Extent(w, h) == [width |-> w, height |-> h]
RunCapabilities == [minImageCount |-> 1, maxImageCount |-> 1,
                    currentExtent |-> Extent(WIDTH, HEIGHT),
                    minImageExtent |-> Extent(WIDTH, HEIGHT),
                    maxImageExtent |-> Extent(WIDTH, HEIGHT)]
RunSurface == [capabilities |-> RunCapabilities,
               formats |-> <<PreferredFormat>>,
               presentModes |-> <<"VK_PRESENT_MODE_FIFO_KHR">>]

Uninitialized == -1

InitCommon ==
    /\ twin = <<>>
    /\ imageCount = 0
    /\ logicalDevice = <<>>
    /\ createInfo = <<>>
    /\ swapChainImageViews = <<>>
    /\ swapChainFramebuffers = <<>>
    /\ commandBuffers = <<>>
    /\ currentFrame = 0
    /\ imageIndex = Uninitialized
    /\ imagesInFlight = <<>>
    /\ fenceSignaled = [f \in Fences |-> FALSE]
    /\ imageAvailableSemaphore = [i \in Slots |-> FALSE]
    /\ renderFinishedSemaphore = [i \in Slots |-> 0]
    /\ graphicsQueue = {}
    /\ presentQueue = <<>>
    /\ acquirePending = {}
    /\ imageOwner = <<>>
    /\ closeRequested = FALSE
    /\ closeObservedAt = -1
    /\ waitIdleReturned = FALSE
    /\ destroyed = <<>>
    /\ exitStatus = -1
    /\ result = "none"
    /\ frameNo = 0
    /\ slotsUsed = <<>>
    /\ trace = <<>>
    /\ availSignaled = {}
    /\ writesBegun = {}
    /\ completed = {}
    /\ presentBegun = {}

Init ==
    /\ InitCommon
    /\ physicalDevice = VK_NULL_HANDLE
    /\ pc = "initWindow"
    /\ created = <<>>
    /\ enableValidationLayers \in BOOLEAN
    /\ gpus \in RunPlatforms
    /\ surface = RunSurface

initWindow ==
    /\ pc = "initWindow"
    /\ pc' = SetupOrder[1]
    /\ UNCHANGED <<twin, setupVars, frameVars, gpuVars, exitVars>>

\* a setup call returns normally
Returns(s) ==
    /\ created' = Append(created, s)
    /\ pc' = AfterSetup(s)

\* a setup call throws std::runtime_error
Throws == pc' = "thrown"

plainSetupStep ==
    /\ pc \in PlainSteps
    /\ \/ Returns(pc)
       \/ Throws /\ UNCHANGED created
    /\ UNCHANGED <<twin, enableValidationLayers, gpus, physicalDevice, imageCount,
                   surface, logicalDevice, createInfo, imageVars, frameVars, gpuVars, exitVars>>

\* the record of a compared call: what the build with the other setting of
\* enableValidationLayers does at that call on the same inputs. Nothing is
\* recorded once the two builds have parted: the other run has ended or is
\* past this call.
WithoutMessenger(destroys) == SelectSeq(destroys, LAMBDA d : d # <<"debugMessenger", 0>>)
ThisOutcome(call) ==
    IF call = "cleanup" THEN WithoutMessenger(destroyed)
    ELSE IF \E k \in 1 .. Len(created) : created[k] = call THEN "returned" ELSE "thrown"
SameOutcome(entry) == entry.outcome = ThisOutcome(entry.call)
Parted == \E k \in 1 .. Len(twin) : ~ SameOutcome(twin[k])
Compared(call, outcome) ==
    IF Parted THEN twin ELSE Append(twin, [call |-> call, outcome |-> outcome])

\* createInstance: throws when validation is enabled and
\* checkValidationLayerSupport() is false, and when vkCreateInstance fails
createInstanceThrows(validation, layersAvailable, success) ==
    (validation /\ ~ layersAvailable) \/ ~ success

createInstanceCall(layersAvailable, success) ==
    /\ pc = "createInstance"
    /\ IF createInstanceThrows(enableValidationLayers, layersAvailable, success)
       THEN Throws /\ UNCHANGED created
       ELSE Returns(pc)
    /\ UNCHANGED <<enableValidationLayers, gpus, physicalDevice, imageCount,
                   surface, logicalDevice, createInfo, imageVars, frameVars, gpuVars, exitVars>>

createInstance ==
    \E layersAvailable, success \in BOOLEAN :
       createInstanceCall(layersAvailable, success) /\ UNCHANGED twin

\* setupDebugCallback: returns at once without validation, else throws when
\* CreateDebugUtilsMessengerEXT fails
setupDebugCallbackThrows(validation, success) == validation /\ ~ success

setupDebugCallbackCall(success) ==
    /\ pc = "setupDebugCallback"
    /\ IF setupDebugCallbackThrows(enableValidationLayers, success)
       THEN Throws /\ UNCHANGED created
       ELSE Returns(pc)
    /\ UNCHANGED <<enableValidationLayers, gpus, physicalDevice, imageCount,
                   surface, logicalDevice, createInfo, imageVars, frameVars, gpuVars, exitVars>>

setupDebugCallback ==
    \E success \in BOOLEAN : setupDebugCallbackCall(success) /\ UNCHANGED twin

pickPhysicalDevice ==
    /\ pc = "pickPhysicalDevice"
    /\ IF Len(gpus) = 0
       THEN Throws /\ UNCHANGED <<physicalDevice, created>>
       ELSE /\ physicalDevice' = pickPhysicalDeviceHandle(gpus)
            /\ IF physicalDevice' = VK_NULL_HANDLE
               THEN Throws /\ UNCHANGED created
               ELSE Returns(pc)
    /\ UNCHANGED <<twin, enableValidationLayers, gpus, imageCount, surface, logicalDevice,
                   createInfo, imageVars, frameVars, gpuVars, exitVars>>

\* the request for one queue of a family
QueueCreateInfo(family) == [queueFamilyIndex |-> family, queueCount |-> 1]

\* one request for the graphics family and one for the present family
queueCreateInfosBoth(indices) ==
    <<QueueCreateInfo(indices.graphicsFamily[1]), QueueCreateInfo(indices.presentFamily[1])>>

\* std::set<uint32_t> uniqueQueueFamilies = {graphics, present}: one request
\* for each element of the set, in ascending order
queueCreateInfosFor(indices) ==
    LET g == indices.graphicsFamily[1]
        p == indices.presentFamily[1]
    IN IF g = p THEN <<QueueCreateInfo(g)>>
       ELSE <<QueueCreateInfo(Min(g, p)), QueueCreateInfo(Max(g, p))>>

\* validationLayers.size()
ValidationLayerCount == 1

\* createLogicalDevice: the VkDeviceCreateInfo and, once vkCreateDevice has
\* succeeded, the two queue handles fetched with vkGetDeviceQueue
createLogicalDevice ==
    /\ pc = "createLogicalDevice"
    /\ LET indices == findQueueFamilies(gpus[physicalDevice])
       IN \/ /\ logicalDevice' =
                  [queueCreateInfos |-> queueCreateInfosFor(indices),
                   enabledLayerCount |->
                     IF enableValidationLayers THEN ValidationLayerCount ELSE 0,
                   graphicsQueue |->
                     [queueFamilyIndex |-> indices.graphicsFamily[1], queueIndex |-> 0],
                   presentQueue |->
                     [queueFamilyIndex |-> indices.presentFamily[1], queueIndex |-> 0]]
             /\ Returns(pc)
          \/ Throws /\ UNCHANGED <<created, logicalDevice>>
    /\ UNCHANGED <<twin, enableValidationLayers, gpus, physicalDevice, imageCount,
                   surface, createInfo, imageVars, frameVars, gpuVars, exitVars>>

\* querySwapChainSupport(device): the formats and present modes the surface
\* reports for the device, as many as the device has
querySwapChainSupport(dev) ==
    [surface EXCEPT !.formats = SubSeq(@, 1, gpus[dev].formats),
                    !.presentModes = SubSeq(@, 1, gpus[dev].presentModes)]

\* The create info is built from the report, vkCreateSwapchainKHR creates at
\* least createInfo.minImageCount images or fails, and
\* vkGetSwapchainImagesKHR reports the final number of images, none of them
\* acquired.
createSwapChain ==
    /\ pc = "createSwapChain"
    /\ createInfo' = SwapchainCreateInfo(querySwapChainSupport(physicalDevice),
                                         findQueueFamilies(gpus[physicalDevice]))
    /\ \/ \E n \in 1 .. MaxImages :
            /\ n >= createInfo'.minImageCount
            /\ imageCount' = n
            /\ imageOwner' = [k \in 1 .. n |-> "free"]
            /\ Returns(pc)
       \/ Throws /\ UNCHANGED <<created, imageCount, imageOwner>>
    /\ UNCHANGED <<twin, enableValidationLayers, gpus, physicalDevice, surface, logicalDevice,
                   imageVars, frameVars, fenceSignaled, imageAvailableSemaphore,
                   renderFinishedSemaphore, graphicsQueue, presentQueue,
                   acquirePending, availSignaled, writesBegun, completed,
                   presentBegun, exitVars>>

\* swapChainImageViews.resize(swapChainImages.size()); view i is created on
\* swapChainImages[i]
createImageViews ==
    /\ pc = "createImageViews"
    /\ \/ /\ swapChainImageViews' = [k \in 1 .. imageCount |-> k - 1]
          /\ Returns(pc)
       \/ Throws /\ UNCHANGED <<created, swapChainImageViews>>
    /\ UNCHANGED <<twin, enableValidationLayers, gpus, physicalDevice, imageCount,
                   surface, logicalDevice, createInfo, swapChainFramebuffers, commandBuffers,
                   frameVars, gpuVars, exitVars>>

\* swapChainFramebuffers.resize(swapChainImageViews.size()); framebuffer i
\* has swapChainImageViews[i] as its one attachment
createFramebuffers ==
    /\ pc = "createFramebuffers"
    /\ \/ /\ swapChainFramebuffers' = [k \in 1 .. Len(swapChainImageViews) |-> k - 1]
          /\ Returns(pc)
       \/ Throws /\ UNCHANGED <<created, swapChainFramebuffers>>
    /\ UNCHANGED <<twin, enableValidationLayers, gpus, physicalDevice, imageCount,
                   surface, logicalDevice, createInfo, swapChainImageViews, commandBuffers,
                   frameVars, gpuVars, exitVars>>

\* one command buffer for every frame in flight
commandBufferCountPerSlot == MAX_FRAMES_IN_FLIGHT

\* commandBuffers.resize(swapChainFramebuffers.size())
commandBufferCount == Len(swapChainFramebuffers)

\* command buffer i is allocated and recorded once, with a render pass into
\* swapChainFramebuffers[i]
createCommandBuffers ==
    /\ pc = "createCommandBuffers"
    /\ \/ /\ commandBuffers' = [k \in 1 .. commandBufferCount |-> k - 1]
          /\ Returns(pc)
       \/ Throws /\ UNCHANGED <<created, commandBuffers>>
    /\ UNCHANGED <<twin, enableValidationLayers, gpus, physicalDevice, imageCount,
                   surface, logicalDevice, createInfo, swapChainImageViews,
                   swapChainFramebuffers, frameVars, gpuVars, exitVars>>

createSyncObjects ==
    /\ pc = "createSyncObjects"
    /\ \/ /\ imagesInFlight' = [k \in 1 .. imageCount |-> VK_NULL_HANDLE]
          /\ fenceSignaled' = [f \in Fences |-> TRUE]
          /\ Returns(pc)
       \/ Throws /\ UNCHANGED <<created, imagesInFlight, fenceSignaled>>
    /\ UNCHANGED <<twin, enableValidationLayers, gpus, physicalDevice, imageCount,
                   surface, logicalDevice, createInfo, imageVars, currentFrame, imageIndex, result,
                   frameNo, slotsUsed, trace,
                   imageAvailableSemaphore, renderFinishedSemaphore, graphicsQueue,
                   presentQueue, acquirePending, imageOwner, availSignaled,
                   writesBegun, completed, presentBegun, exitVars>>


\* -------------------------------------------------------------- main loop
\* mainLoop without its vkDeviceWaitIdle
AfterLoopNoDrain == "cleanup"

\* where mainLoop goes when its while condition fails
AfterLoop == "deviceWaitIdle"

\* TriangleApplication::drawFrame: the calls, in order
DrawOrder == <<"waitForFences", "acquireNextImage", "checkImageInFlight",
               "markImageInFlight", "resetFences", "queueSubmit", "queuePresent",
               "advanceFrame">>
DrawSteps == {DrawOrder[k] : k \in 1 .. Len(DrawOrder)}
DrawNo(s) == CHOOSE k \in 1 .. Len(DrawOrder) : DrawOrder[k] = s

\* drawFrame with vkResetFences moved below vkQueueSubmit
SwappedOrder == <<"waitForFences", "acquireNextImage", "checkImageInFlight",
                  "markImageInFlight", "queueSubmit", "resetFences", "queuePresent",
                  "advanceFrame">>
AfterStepSwapped(s) ==
    LET k == CHOOSE j \in 1 .. Len(SwappedOrder) : SwappedOrder[j] = s
    IN IF k < Len(SwappedOrder) THEN SwappedOrder[k + 1] ELSE "mainLoop"

\* drawFrame that rebuilds the swapchain once the image is presented
AfterStepRecreate(s) ==
    IF s = "queuePresent" THEN "createSwapChain"
    ELSE IF DrawNo(s) < Len(DrawOrder) THEN DrawOrder[DrawNo(s) + 1] ELSE "mainLoop"

\* the statement of drawFrame that follows statement s; mainLoop after the last
AfterStep(s) ==
    IF DrawNo(s) < Len(DrawOrder) THEN DrawOrder[DrawNo(s) + 1] ELSE "mainLoop"

\* a call of drawFrame, as <<call, synchronisation object or slot, image>>
Call(name, a, b) == <<name, a, b>>

\* while (!glfwWindowShouldClose(window)) { glfwPollEvents(); drawFrame(); }
\* Only the loop condition reads the flag that glfwPollEvents sets, so whether
\* the poll of an iteration delivered a close request is decided when that
\* iteration returns to the condition (advanceFrame).
mainLoop ==
    /\ pc = "mainLoop"
    /\ \/ /\ closeRequested
          /\ closeObservedAt' = frameNo
          /\ pc' = AfterLoop
          /\ UNCHANGED <<closeRequested, slotsUsed, trace>>
       \/ /\ ~closeRequested
          /\ frameNo < MaxIter
          /\ slotsUsed' = Append(slotsUsed, currentFrame)
          /\ pc' = DrawOrder[1]
          /\ UNCHANGED <<closeRequested, closeObservedAt, trace>>
    /\ UNCHANGED <<twin, setupVars, currentFrame, imageIndex, imagesInFlight, result,
                   frameNo, gpuVars, waitIdleReturned, destroyed, exitStatus>>

\* drawFrame without the wait on the slot's fence
SlotFenceReadyAlways(slot) == TRUE

\* vkWaitForFences(inFlightFences[slot]) returns: the fence is signaled
SlotFenceReady(slot) == fenceSignaled[FenceOf(slot)]

waitForFences ==
    /\ pc = "waitForFences"
    /\ SlotFenceReady(currentFrame)
    /\ trace' = Append(trace, Call("waitForFences", FenceOf(currentFrame), Uninitialized))
    /\ pc' = AfterStep(pc)
    /\ UNCHANGED <<twin, setupVars, currentFrame, imageIndex, imagesInFlight, result,
                   frameNo, slotsUsed, gpuVars, exitVars>>

AcquireResults == {"VK_SUCCESS", "VK_SUBOPTIMAL_KHR", "VK_ERROR_OUT_OF_DATE_KHR"}
Stale == {"VK_SUBOPTIMAL_KHR", "VK_ERROR_OUT_OF_DATE_KHR"}

\* acquire hands out an image only once the present queue is empty
AcquirableWhenIdle(img) == imageOwner[img + 1] = "free" /\ presentQueue = <<>>

\* an image vkAcquireNextImageKHR can hand out: one the application has not
\* acquired and the presentation engine no longer holds
Acquirable(img) == imageOwner[img + 1] = "free"

\* vkAcquireNextImageKHR with timeout UINT64_MAX and
\* imageAvailableSemaphore[currentFrame]; the return value is dropped.  The
\* call returns an image once one can be acquired (until then it waits), or
\* an error.  On an error imageIndex is not written: it keeps an
\* indeterminate value, which either happens to index an image or sends the
\* reads of imagesInFlight[imageIndex] out of range (the process dies).
acquireNextImage ==
    /\ pc = "acquireNextImage"
    /\ \E res \in AcquireResults :
         /\ result' = res
         /\ trace' = Append(trace, Call("acquireNextImage", currentFrame, Uninitialized))
         /\ IF res # "VK_ERROR_OUT_OF_DATE_KHR"
            THEN \E img \in 0 .. (imageCount - 1) :
                   /\ Acquirable(img)
                   /\ imageIndex' = img
                   /\ imageOwner' = [imageOwner EXCEPT ![img + 1] = "application"]
                   /\ acquirePending' = acquirePending \cup
                        {[id |-> frameNo, semaphore |-> currentFrame, image |-> img]}
                   /\ pc' = AfterStep(pc)
            ELSE /\ UNCHANGED <<acquirePending, imageOwner>>
                 /\ \/ \E img \in 0 .. (imageCount - 1) :
                         imageIndex' = img /\ pc' = AfterStep(pc)
                    \/ imageIndex' = imageCount /\ pc' = "crashed"
    /\ UNCHANGED <<twin, setupVars, currentFrame, imagesInFlight, frameNo, slotsUsed,
                   fenceSignaled, imageAvailableSemaphore, renderFinishedSemaphore,
                   graphicsQueue, presentQueue, availSignaled, writesBegun,
                   completed, presentBegun, exitVars>>

\* the check of the image's recorded fence never waits
MustWaitImageNever(img) == FALSE

\* if (imagesInFlight[imageIndex] != VK_NULL_HANDLE): is the wait made?
MustWaitImage(img) == imagesInFlight[img + 1] # VK_NULL_HANDLE

checkImageInFlight ==
    /\ pc = "checkImageInFlight"
    /\ IF MustWaitImage(imageIndex)
       THEN /\ fenceSignaled[imagesInFlight[imageIndex + 1]]
            /\ trace' = Append(trace, Call("waitImage", imagesInFlight[imageIndex + 1], imageIndex))
       ELSE trace' = Append(trace, Call("noWait", VK_NULL_HANDLE, imageIndex))
    /\ result' = "none"
    /\ pc' = AfterStep(pc)
    /\ UNCHANGED <<twin, setupVars, currentFrame, imageIndex, imagesInFlight,
                   frameNo, slotsUsed, gpuVars, exitVars>>

\* the image is marked with the fence of the other slot
OwnerFenceOtherSlot(slot) == FenceOf((slot + 1) % MAX_FRAMES_IN_FLIGHT)

\* the fence recorded as the image's owner: inFlightFences[currentFrame]
OwnerFence(slot) == FenceOf(slot)

\* imagesInFlight[imageIndex] = inFlightFences[currentFrame]
markImageInFlight ==
    /\ pc = "markImageInFlight"
    /\ imagesInFlight' = [imagesInFlight EXCEPT ![imageIndex + 1] = OwnerFence(currentFrame)]
    /\ trace' = Append(trace, Call("markImageInFlight", OwnerFence(currentFrame), imageIndex))
    /\ pc' = AfterStep(pc)
    /\ UNCHANGED <<twin, setupVars, currentFrame, imageIndex, result, frameNo, slotsUsed,
                   gpuVars, exitVars>>

\* vkResetFences(inFlightFences[currentFrame])
resetFences ==
    /\ pc = "resetFences"
    /\ fenceSignaled' = [fenceSignaled EXCEPT ![FenceOf(currentFrame)] = FALSE]
    /\ trace' = Append(trace, Call("resetFences", FenceOf(currentFrame), Uninitialized))
    /\ pc' = AfterStep(pc)
    /\ UNCHANGED <<twin, setupVars, currentFrame, imageIndex, imagesInFlight, result,
                   frameNo, slotsUsed, imageAvailableSemaphore, renderFinishedSemaphore,
                   graphicsQueue, presentQueue, acquirePending, imageOwner,
                   availSignaled, writesBegun, completed, presentBegun, exitVars>>

\* the batch waits on the image-available semaphore of the other slot
SubmitWaitOtherSemaphore == (currentFrame + 1) % MAX_FRAMES_IN_FLIGHT

\* submitInfo.pWaitSemaphores: the semaphore the batch waits on
SubmitWaitSemaphore == currentFrame

SubmitResults == {"VK_SUCCESS", "VK_ERROR_DEVICE_LOST"}

\* vkQueueSubmit(graphicsQueue, submitInfo, inFlightFences[currentFrame])
queueSubmit ==
    /\ pc = "queueSubmit"
    /\ trace' = Append(trace, Call("queueSubmit", FenceOf(currentFrame), imageIndex))
    /\ \E res \in SubmitResults :
         /\ IF res = "VK_SUCCESS"
            THEN /\ graphicsQueue' = graphicsQueue \cup
                      {[id |-> frameNo, commandBuffer |-> commandBuffers[imageIndex + 1],
                        waitSemaphore |-> SubmitWaitSemaphore,
                        signalSemaphore |-> currentFrame,
                        fence |-> FenceOf(currentFrame), stage |-> "queued"]}
                 /\ pc' = AfterStep(pc)
            ELSE /\ pc' = "thrown"
                 /\ UNCHANGED graphicsQueue
    /\ UNCHANGED <<twin, setupVars, currentFrame, imageIndex, imagesInFlight, result,
                   frameNo, slotsUsed, fenceSignaled, imageAvailableSemaphore,
                   renderFinishedSemaphore, presentQueue, acquirePending, imageOwner,
                   availSignaled, writesBegun, completed, presentBegun, exitVars>>

\* vkQueuePresentKHR(presentQueue, presentInfo); the return value is dropped.
\* The semaphore wait of a request is queued whatever the call returns, and
\* the image goes back to the presentation engine.
queuePresent ==
    /\ pc = "queuePresent"
    /\ trace' = Append(trace, Call("queuePresent", currentFrame, imageIndex))
    /\ \E res \in AcquireResults : result' = res
    /\ presentQueue' = Append(presentQueue,
                              [id |-> frameNo, image |-> imageIndex,
                               waitSemaphore |-> currentFrame])
    /\ imageOwner' = [imageOwner EXCEPT ![imageIndex + 1] = "presented"]
    /\ pc' = AfterStep(pc)
    /\ UNCHANGED <<twin, setupVars, currentFrame, imageIndex, imagesInFlight, frameNo,
                   slotsUsed, fenceSignaled, imageAvailableSemaphore,
                   renderFinishedSemaphore, graphicsQueue, acquirePending,
                   availSignaled, writesBegun, completed, presentBegun, exitVars>>

\* the slot advances modulo the number of swapchain images
NextFrameByImages(cur) == (cur + 1) % imageCount

\* the slot of the next iteration
NextFrame(cur) == (cur + 1) % MAX_FRAMES_IN_FLIGHT

\* currentFrame = (currentFrame + 1) % MAX_FRAMES_IN_FLIGHT; drawFrame returns
\* to the loop condition, which reads the flag this iteration's poll left
advanceFrame ==
    /\ pc = "advanceFrame"
    /\ currentFrame' = NextFrame(currentFrame)
    /\ trace' = <<>>
    /\ frameNo' = frameNo + 1
    /\ imageIndex' = Uninitialized
    /\ result' = "none"
    /\ closeRequested' \in BOOLEAN
    /\ pc' = AfterStep(pc)
    /\ UNCHANGED <<twin, setupVars, imagesInFlight, slotsUsed, gpuVars, closeObservedAt,
                   waitIdleReturned, destroyed, exitStatus>>


\* ------------------------------------------ GPU and presentation engine
\* the presentation engine signals the semaphore of an acquire once no earlier
\* presentation request of that image is outstanding
signalImageAvailable ==
    /\ \E a \in acquirePending :
         /\ \A k \in 1 .. Len(presentQueue) :
              presentQueue[k].image = a.image => presentQueue[k].id >= a.id
         /\ acquirePending' = acquirePending \ {a}
         /\ imageAvailableSemaphore' = [imageAvailableSemaphore EXCEPT ![a.semaphore] = TRUE]
         /\ availSignaled' = availSignaled \cup {a.id}
    /\ UNCHANGED <<pc, twin, setupVars, frameVars, exitVars, fenceSignaled,
                   renderFinishedSemaphore, graphicsQueue, presentQueue, imageOwner,
                   writesBegun, completed, presentBegun>>

\* a batch passes its semaphore wait at COLOR_ATTACHMENT_OUTPUT and starts
\* writing the color attachment; the wait unsignals the semaphore
beginColorWrites ==
    /\ \E b \in graphicsQueue :
         /\ b.stage = "queued"
         /\ imageAvailableSemaphore[b.waitSemaphore]
         /\ imageAvailableSemaphore' = [imageAvailableSemaphore EXCEPT ![b.waitSemaphore] = FALSE]
         /\ graphicsQueue' = (graphicsQueue \ {b}) \cup {[b EXCEPT !.stage = "writing"]}
         /\ writesBegun' = writesBegun \cup {b.id}
    /\ UNCHANGED <<pc, twin, setupVars, frameVars, exitVars, fenceSignaled,
                   renderFinishedSemaphore, presentQueue, acquirePending, imageOwner,
                   availSignaled, completed, presentBegun>>

\* a batch completes, in any order: its semaphore and its fence are signaled.
\* Signaling a semaphore that is still signaled is invalid; the signal is then
\* either lost or kept for a later wait.
completeBatch ==
    /\ \E b \in graphicsQueue :
         /\ b.stage = "writing"
         /\ graphicsQueue' = graphicsQueue \ {b}
         /\ \E kept \in BOOLEAN :
              /\ ~kept => renderFinishedSemaphore[b.signalSemaphore] > 0
              /\ renderFinishedSemaphore' =
                   [renderFinishedSemaphore EXCEPT ![b.signalSemaphore] =
                      IF kept THEN @ + 1 ELSE @]
         /\ fenceSignaled' = [fenceSignaled EXCEPT ![b.fence] = TRUE]
         /\ completed' = completed \cup {b.id}
    /\ UNCHANGED <<pc, twin, setupVars, frameVars, exitVars, imageAvailableSemaphore,
                   presentQueue, acquirePending, imageOwner, availSignaled,
                   writesBegun, presentBegun>>

\* the present queue processes its requests in order: the first one passes its
\* semaphore wait and the presentation engine takes the image.  The engine is
\* taken to give the image back at once, the earliest moment at which
\* vkAcquireNextImageKHR can hand it out again; an engine that holds the image
\* longer only delays an acquire.
beginPresent ==
    /\ presentQueue # <<>>
    /\ LET r == Head(presentQueue)
       IN /\ renderFinishedSemaphore[r.waitSemaphore] > 0
          /\ renderFinishedSemaphore' = [renderFinishedSemaphore EXCEPT ![r.waitSemaphore] = @ - 1]
          /\ presentBegun' = presentBegun \cup {r.id}
          /\ imageOwner' = [imageOwner EXCEPT ![r.image + 1] = "free"]
    /\ presentQueue' = Tail(presentQueue)
    /\ UNCHANGED <<pc, twin, setupVars, frameVars, exitVars, fenceSignaled,
                   imageAvailableSemaphore, graphicsQueue, acquirePending,
                   availSignaled, writesBegun, completed>>

\* --------------------------------------------------------------- teardown
\* vkDeviceWaitIdle(device) returns when every queue is idle
deviceWaitIdle ==
    /\ pc = "deviceWaitIdle"
    /\ graphicsQueue = {}
    /\ presentQueue = <<>>
    /\ waitIdleReturned' = TRUE
    /\ pc' = "cleanup"
    /\ UNCHANGED <<twin, setupVars, frameVars, gpuVars, closeRequested, closeObservedAt,
                   destroyed, exitStatus>>

\* TriangleApplication::cleanup: the destroy calls, in order
RECURSIVE SyncDestroys(_)
SyncDestroys(i) ==
    IF i >= MAX_FRAMES_IN_FLIGHT THEN <<>>
    ELSE <<<<"renderFinishedSemaphore", i>>, <<"imageAvailableSemaphore", i>>,
           <<"inFlightFence", i>>>> \o SyncDestroys(i + 1)
\* cleanup with vkDestroyDevice called before the swapchain is destroyed
CleanupOrderDeviceFirst(validation) ==
    SyncDestroys(0) \o
    <<<<"commandPool", 0>>>> \o
    [k \in 1 .. Len(swapChainFramebuffers) |-> <<"framebuffer", k - 1>>] \o
    <<<<"graphicsPipeline", 0>>, <<"pipelineLayout", 0>>, <<"renderPass", 0>>>> \o
    [k \in 1 .. Len(swapChainImageViews) |-> <<"imageView", k - 1>>] \o
    <<<<"device", 0>>, <<"swapChain", 0>>>> \o
    (IF validation THEN <<<<"debugMessenger", 0>>>> ELSE <<>>) \o
    <<<<"surface", 0>>, <<"instance", 0>>, <<"window", 0>>>>

\* vkDestroyCommandPool also frees the command buffers allocated from the
\* pool; the framebuffers and the image views are destroyed one by one
CleanupOrder(validation) ==
    SyncDestroys(0) \o
    <<<<"commandPool", 0>>>> \o
    [k \in 1 .. Len(swapChainFramebuffers) |-> <<"framebuffer", k - 1>>] \o
    <<<<"graphicsPipeline", 0>>, <<"pipelineLayout", 0>>, <<"renderPass", 0>>>> \o
    [k \in 1 .. Len(swapChainImageViews) |-> <<"imageView", k - 1>>] \o
    <<<<"swapChain", 0>>, <<"device", 0>>>> \o
    (IF validation THEN <<<<"debugMessenger", 0>>>> ELSE <<>>) \o
    <<<<"surface", 0>>, <<"instance", 0>>, <<"window", 0>>>>

cleanupCall ==
    /\ pc = "cleanup"
    /\ destroyed' = CleanupOrder(enableValidationLayers)
    /\ pc' = "returned"
    /\ UNCHANGED <<setupVars, frameVars, gpuVars, closeRequested, closeObservedAt,
                   waitIdleReturned, exitStatus>>

\* main whose catch block returns EXIT_SUCCESS
mainStatusAlwaysSuccess(threw) == EXIT_SUCCESS

\* main: EXIT_FAILURE from the catch block, EXIT_SUCCESS when run() returns
mainStatus(threw) == IF threw THEN EXIT_FAILURE ELSE EXIT_SUCCESS

cleanup == cleanupCall /\ UNCHANGED twin

main ==
    /\ pc \in {"thrown", "returned"}
    /\ exitStatus' = mainStatus(pc = "thrown")
    /\ pc' = "exited"
    /\ UNCHANGED <<twin, setupVars, frameVars, gpuVars, closeRequested, closeObservedAt,
                   waitIdleReturned, destroyed>>

Next ==
    \/ initWindow
    \/ createInstance
    \/ plainSetupStep
    \/ setupDebugCallback
    \/ pickPhysicalDevice
    \/ createLogicalDevice
    \/ createSwapChain
    \/ createImageViews
    \/ createFramebuffers
    \/ createCommandBuffers
    \/ createSyncObjects
    \/ mainLoop
    \/ waitForFences
    \/ acquireNextImage
    \/ checkImageInFlight
    \/ markImageInFlight
    \/ resetFences
    \/ queueSubmit
    \/ queuePresent
    \/ advanceFrame
    \/ signalImageAvailable
    \/ beginColorWrites
    \/ completeBatch
    \/ beginPresent
    \/ deviceWaitIdle
    \/ cleanup
    \/ main

Spec == Init /\ [][Next]_vars

\* the CPU thread runs whenever its next statement can run; the GPU executes
\* what its queues allow, and the presentation engine signals and releases
CpuStep ==
    \/ initWindow \/ createInstance \/ plainSetupStep \/ setupDebugCallback \/ pickPhysicalDevice
    \/ createLogicalDevice \/ createSwapChain \/ createImageViews \/ createFramebuffers
    \/ createCommandBuffers \/ createSyncObjects \/ mainLoop \/ waitForFences
    \/ acquireNextImage \/ checkImageInFlight \/ markImageInFlight \/ resetFences
    \/ queueSubmit \/ queuePresent \/ advanceFrame \/ deviceWaitIdle \/ cleanup
    \/ main

Fairness ==
    /\ WF_vars(CpuStep)
    /\ WF_vars(signalImageAvailable)
    /\ WF_vars(beginColorWrites)
    /\ WF_vars(completeBatch)
    /\ WF_vars(beginPresent)

SpecLive == Init /\ [][Next]_vars /\ Fairness

\* a run in which the window is closed while the first frame is drawn: the
\* loop condition that follows the first drawFrame sees the close flag set
NextFirstFrame == Next /\ (frameNo' > 0 => closeRequested')
SpecFirstFrame == Init /\ [][NextFirstFrame]_vars

\* runs that leave the loop after at most MaxFrames iterations: the window is
\* closed by then
NextFrames == Next /\ ((pc = "mainLoop" /\ pc' = DrawOrder[1]) => frameNo < MaxFrames)
SpecFrames == Init /\ [][NextFrames]_vars

\* the two builds side by side: every call that reads enableValidationLayers
\* also records what the other build does at it on the same inputs
compareCreateInstance ==
    \E layersAvailable, success \in BOOLEAN :
       /\ createInstanceCall(layersAvailable, success)
       /\ twin' = Compared("createInstance",
                           IF createInstanceThrows(~ enableValidationLayers,
                                                   layersAvailable, success)
                           THEN "thrown" ELSE "returned")

compareSetupDebugCallback ==
    \E success \in BOOLEAN :
       /\ setupDebugCallbackCall(success)
       /\ twin' = Compared("setupDebugCallback",
                           IF setupDebugCallbackThrows(~ enableValidationLayers, success)
                           THEN "thrown" ELSE "returned")

compareCleanup ==
    /\ cleanupCall
    /\ twin' = Compared("cleanup", WithoutMessenger(CleanupOrder(~ enableValidationLayers)))

NextValidation ==
    /\ \/ initWindow
       \/ compareCreateInstance
       \/ plainSetupStep
       \/ compareSetupDebugCallback
       \/ pickPhysicalDevice
       \/ createLogicalDevice
       \/ createSwapChain
       \/ createImageViews
       \/ createFramebuffers
       \/ createCommandBuffers
       \/ createSyncObjects
       \/ mainLoop
       \/ waitForFences
       \/ acquireNextImage
       \/ checkImageInFlight
       \/ markImageInFlight
       \/ resetFences
       \/ queueSubmit
       \/ queuePresent
       \/ advanceFrame
       \/ signalImageAvailable
       \/ beginColorWrites
       \/ completeBatch
       \/ beginPresent
       \/ deviceWaitIdle
       \/ compareCleanup
       \/ main
    /\ (frameNo' > 0 => closeRequested')

SpecValidation == Init /\ [][NextValidation]_vars


\* ------------------------------------------- device selection on its own
\* queue families a device may report here: with queues and graphics,
\* present or both, or graphics and present without any queue
PickFamilies ==
    {f \in QueueFamilies : f.queueCount = 1 /\ (f.graphics \/ f.present)}
    \cup {[queueCount |-> 0, graphics |-> TRUE, present |-> TRUE]}

RECURSIVE FamilyLists(_)
FamilyLists(n) ==
    IF n = 0 THEN {<<>>}
    ELSE {Append(l, f) : l \in FamilyLists(n - 1), f \in PickFamilies}

RECURSIVE TotalFamilies(_)
TotalFamilies(lists) ==
    IF lists = <<>> THEN 0 ELSE Len(Head(lists)) + TotalFamilies(Tail(lists))

SwapChainSupports == [swapchainExtension : BOOLEAN, formats : 0 .. 1, presentModes : 0 .. 1]

\* the platform: up to MaxGpus devices with up to MaxFamilies queue families
\* between them, each device with any swapchain support
InitPick ==
    /\ InitCommon
    /\ physicalDevice = VK_NULL_HANDLE
    /\ pc = "pickPhysicalDevice"
    /\ created = SubSeq(SetupOrder, 1, StepNo("pickPhysicalDevice") - 1)
    /\ enableValidationLayers = FALSE
    /\ surface = RunSurface
    /\ \E n \in 0 .. MaxGpus :
         \E fams \in [1 .. n -> UNION {FamilyLists(j) : j \in 0 .. MaxFamilies}] :
           /\ TotalFamilies(fams) <= MaxFamilies
           /\ \E sup \in [1 .. n -> SwapChainSupports] :
                gpus = [k \in 1 .. n |->
                          [families |-> fams[k],
                           swapchainExtension |-> sup[k].swapchainExtension,
                           formats |-> sup[k].formats,
                           presentModes |-> sup[k].presentModes]]

NextPick == pickPhysicalDevice

SpecPick == InitPick /\ [][NextPick]_vars

\* device selection followed by the two setup calls that use the selected
\* device's queue families and swapchain support
NextDevice == pickPhysicalDevice \/ createLogicalDevice \/ createSwapChain

SpecDevice == InitPick /\ [][NextDevice]_vars


\* --------------------------------------- swapchain configuration on its own
Range(f) == {f[k] : k \in DOMAIN f}

\* the lists of n distinct elements of S
RECURSIVE ListsOfLen(_, _)
ListsOfLen(S, n) ==
    IF n = 0 THEN {<<>>}
    ELSE UNION {{Append(l, x) : x \in S \ Range(l)} : l \in ListsOfLen(S, n - 1)}

\* the non-empty lists a query may fill a vector with
Listings(S) == UNION {ListsOfLen(S, n) : n \in 1 .. Cardinality(S)}

PresentModes == {"VK_PRESENT_MODE_IMMEDIATE_KHR", "VK_PRESENT_MODE_MAILBOX_KHR",
                 "VK_PRESENT_MODE_FIFO_KHR", "VK_PRESENT_MODE_FIFO_RELAXED_KHR"}

SurfaceFormats ==
    [format : {"VK_FORMAT_B8G8R8A8_SRGB", "VK_FORMAT_B8G8R8A8_UNORM"},
     colorSpace : {"VK_COLOR_SPACE_SRGB_NONLINEAR_KHR",
                   "VK_COLOR_SPACE_EXTENDED_SRGB_LINEAR_EXT"}]

\* extents below, at and above the window size, also mixed
ExtentValues == {Extent(640, 480), Extent(WIDTH, HEIGHT), Extent(1024, 768),
                 Extent(1024, 480)}

\* currentExtent: the sentinel or a size the surface dictates
CurrentExtents == {Extent(UINT32_MAX, UINT32_MAX), Extent(640, 480), Extent(1024, 768)}

\* capability reports: any image counts with the extents of RunCapabilities, or
\* any extents (minimum <= maximum) with the image counts of RunCapabilities
SwapCapabilities ==
    {[RunCapabilities EXCEPT !.minImageCount = lo, !.maxImageCount = hi] :
        lo \in 1 .. MaxImages, hi \in 0 .. MaxImages}
    \cup
    {[RunCapabilities EXCEPT !.currentExtent = cur, !.minImageExtent = b[1],
                             !.maxImageExtent = b[2]] :
        cur \in CurrentExtents,
        b \in {e \in ExtentValues \X ExtentValues :
                  e[1].width <= e[2].width /\ e[1].height <= e[2].height}}

\* surface reports: one of capabilities, formats and present modes is varied
SwapSurfaces ==
    {[RunSurface EXCEPT !.capabilities = c] : c \in SwapCapabilities}
    \cup {[RunSurface EXCEPT !.formats = l] : l \in Listings(SurfaceFormats)}
    \cup {[RunSurface EXCEPT !.presentModes = l] : l \in Listings(PresentModes)}

\* the queue families of a device that has a graphics and a present family
SwapFamilies ==
    {l \in UNION {FamilyLists(j) : j \in 1 .. MaxFamilies} :
        isComplete(findQueueFamilies([families |-> l]))}

\* createSwapChain is about to run on the selected device
InitSwap ==
    /\ InitCommon
    /\ pc = "createSwapChain"
    /\ created = SubSeq(SetupOrder, 1, StepNo("createSwapChain") - 1)
    /\ enableValidationLayers = FALSE
    /\ physicalDevice = 1
    /\ surface \in SwapSurfaces
    /\ \E l \in SwapFamilies :
         gpus = <<[families |-> l, swapchainExtension |-> TRUE,
                   formats |-> Len(surface.formats),
                   presentModes |-> Len(surface.presentModes)]>>

NextSwap == createSwapChain

SpecSwap == InitSwap /\ [][NextSwap]_vars


\* ================================================================ claims
OtherSlot(slot) == (slot + 1) % MAX_FRAMES_IN_FLIGHT

\* C1: the submissions queued by drawFrame and not yet completed on the GPU
\* never number more than MAX_FRAMES_IN_FLIGHT: every one of them holds a
\* different in-flight fence, and that fence is unsignaled while it is pending.
C1_InFlightBound ==
    /\ Cardinality(graphicsQueue) <= MAX_FRAMES_IN_FLIGHT
    /\ \A b \in graphicsQueue : ~fenceSignaled[b.fence]
    /\ \A b1, b2 \in graphicsQueue : b1.fence = b2.fence => b1 = b2

\* C1 witness: MAX_FRAMES_IN_FLIGHT submissions are pending at once
C1_Witness == Cardinality(graphicsQueue) = MAX_FRAMES_IN_FLIGHT

\* C2: when drawFrame submits commandBuffers[imageIndex], no earlier submission
\* of that command buffer is still pending on the GPU; so no command buffer is
\* ever pending twice.
C2_NoPendingResubmit ==
    /\ pc = "queueSubmit" => \A b \in graphicsQueue : b.commandBuffer # imageIndex
    /\ \A b1, b2 \in graphicsQueue : b1.commandBuffer = b2.commandBuffer => b1 = b2

\* C2 witness: a command buffer has been submitted after a wait on the image's
\* recorded fence, a fence of the other slot that the previous iteration had
\* meanwhile reused for another image
C2_Witness ==
    /\ pc = "queuePresent"
    /\ Len(trace) >= 3
    /\ trace[3][1] = "waitImage"
    /\ trace[3][2] = FenceOf(OtherSlot(currentFrame))
    /\ \E k \in 1 .. Len(presentQueue) :
         /\ presentQueue[k].id = frameNo - 1
         /\ presentQueue[k].waitSemaphore = OtherSlot(currentFrame)
         /\ presentQueue[k].image # imageIndex
    /\ \E b \in graphicsQueue : b.id = frameNo /\ b.commandBuffer = imageIndex

\* C3: when drawFrame is about to overwrite imagesInFlight[imageIndex], the
\* fence recorded there, if any, is the one the iteration has just waited on
\* (its last call), and that fence is signaled.
C3_WaitBeforeClaim ==
    (pc = "markImageInFlight" /\ imagesInFlight[imageIndex + 1] # VK_NULL_HANDLE) =>
        /\ trace[Len(trace)] = Call("waitImage", imagesInFlight[imageIndex + 1], imageIndex)
        /\ fenceSignaled[imagesInFlight[imageIndex + 1]]

\* C3 witness: an image owned by the fence of the other slot is about to be
\* claimed by the current slot
C3_Witness ==
    /\ pc = "markImageInFlight"
    /\ imagesInFlight[imageIndex + 1] = FenceOf(OtherSlot(currentFrame))

\* C4: once the loop condition has seen the close request no drawFrame
\* iteration starts; cleanup destroys something only after vkDeviceWaitIdle
\* has returned, and never while a submission is pending.
C4_DrainBeforeDestroy ==
    /\ closeObservedAt # -1 =>
         /\ frameNo = closeObservedAt
         /\ Len(slotsUsed) = closeObservedAt
         /\ pc \notin DrawSteps \cup {"mainLoop"}
    /\ (pc = "cleanup" \/ destroyed # <<>>) =>
         /\ closeObservedAt # -1
         /\ waitIdleReturned
         /\ graphicsQueue = {}
         /\ presentQueue = <<>>

\* C4 witness: cleanup has destroyed the objects of a run that drew frames
C4_Witness ==
    /\ destroyed # <<>>
    /\ frameNo >= MAX_FRAMES_IN_FLIGHT
    /\ completed # {}

\* C5: the color writes of a frame begin only after the image-available
\* semaphore of that frame's acquire was signaled, and its presentation begins
\* only after its submission completed.
C5_GpuOrdering ==
    /\ writesBegun \subseteq availSignaled
    /\ presentBegun \subseteq completed
    /\ \A b \in graphicsQueue : b.stage = "writing" => b.id \in availSignaled

\* C5 witness: submit and present of a frame have returned on the CPU while
\* the image-available semaphore of that frame is still unsignaled, and an
\* earlier frame has gone through color writes and presentation
C5_Witness ==
    /\ pc = "advanceFrame"
    /\ frameNo \notin availSignaled
    /\ \E a \in acquirePending : a.id = frameNo
    /\ \E b \in graphicsQueue : b.id = frameNo /\ b.stage = "queued"
    /\ presentBegun # {}

\* the call of drawFrame a trace entry stands for
StepOf(entry) ==
    IF entry[1] \in {"waitImage", "noWait"} THEN "checkImageInFlight" ELSE entry[1]

\* C6: an iteration makes its calls in the order wait on the slot's fence,
\* acquire with the slot's semaphore, check (and wait on) the image's fence,
\* mark the image with the slot's fence, reset the slot's fence, submit with
\* the slot's fence, present, advance: at every statement exactly the
\* statements before it have run, each once, with the current slot's objects.
C6_StepOrder ==
    /\ pc \in DrawSteps => Len(trace) = DrawNo(pc) - 1
    /\ Len(trace) <= Len(DrawOrder) - 1
    /\ \A k \in 1 .. Len(trace) : StepOf(trace[k]) = DrawOrder[k]
    /\ Len(trace) >= 1 => trace[1][2] = FenceOf(currentFrame)
    /\ Len(trace) >= 2 => trace[2][2] = currentFrame
    /\ (pc = "markImageInFlight") =>
         (trace[3][1] = "waitImage" <=> imagesInFlight[imageIndex + 1] # VK_NULL_HANDLE)
    /\ Len(trace) >= 4 => trace[4] = Call("markImageInFlight", FenceOf(currentFrame), imageIndex)
    /\ Len(trace) >= 5 => trace[5][2] = FenceOf(currentFrame)
    /\ Len(trace) >= 6 => trace[6] = Call("queueSubmit", FenceOf(currentFrame), imageIndex)
    /\ Len(trace) >= 7 => trace[7] = Call("queuePresent", currentFrame, imageIndex)

\* C6 witness: an iteration that waited on the image's fence has made all its
\* calls and is about to advance the slot
C6_Witness ==
    /\ pc = "advanceFrame"
    /\ Len(trace) = Len(DrawOrder) - 1
    /\ trace[3][1] = "waitImage"

\* C7 as claimed: after k completed iterations the frame counter equals k
C7_CounterCountsIterations == currentFrame = frameNo

\* C7 amended: after k completed iterations currentFrame is k mod
\* MAX_FRAMES_IN_FLIGHT, and the j-th iteration (0-based) used slot
\* j mod MAX_FRAMES_IN_FLIGHT, whatever images acquire returned.
C7_SlotSequence ==
    /\ currentFrame = frameNo % MAX_FRAMES_IN_FLIGHT
    /\ Len(slotsUsed) \in {frameNo, frameNo + 1}
    /\ \A j \in 1 .. Len(slotsUsed) : slotsUsed[j] = (j - 1) % MAX_FRAMES_IN_FLIGHT

\* C7 witness: five iterations on a three-image chain
C7_Witness ==
    /\ frameNo = 5
    /\ imageCount = 3
    /\ slotsUsed = <<0, 1, 0, 1, 0>>
    /\ currentFrame = 1

\* C8 as claimed: a stale or suboptimal result of acquire or present ends the
\* run with an error before anything else happens
C8_StaleIsFatal == result \in Stale => pc \in {"thrown", "exited"}

\* C9: a setup call that fails is not retried and nothing after it runs: the
\* calls that returned are always an initial part of initVulkan's list, no
\* frame is drawn unless all returned, and the process then exits with
\* EXIT_FAILURE; a run that left the loop on a close request exits with
\* EXIT_SUCCESS.
C9_SetupFailureIsFatal ==
    /\ Len(created) <= Len(SetupOrder)
    /\ created = SubSeq(SetupOrder, 1, Len(created))
    /\ pc \in SetupSteps => Len(created) = StepNo(pc) - 1
    /\ Len(created) < Len(SetupOrder) =>
         /\ pc \in SetupSteps \cup {"initWindow", "thrown", "exited"}
         /\ frameNo = 0 /\ slotsUsed = <<>> /\ graphicsQueue = {} /\ destroyed = <<>>
         /\ pc = "exited" => exitStatus = EXIT_FAILURE /\ exitStatus # 0
    /\ (pc = "exited" /\ closeObservedAt # -1) => exitStatus = EXIT_SUCCESS
    /\ pc # "exited" => exitStatus = -1

\* C9 witness: the process has exited with EXIT_FAILURE after a setup call in
\* the middle of initVulkan failed
C9_Witness ==
    /\ pc = "exited"
    /\ exitStatus = EXIT_FAILURE
    /\ Len(created) = StepNo("createSwapChain") - 1

\* a family with queues that supports graphics / presenting to the surface
HasGraphicsFamily(d) ==
    \E k \in 1 .. Len(d.families) : d.families[k].queueCount > 0 /\ d.families[k].graphics
HasPresentFamily(d) ==
    \E k \in 1 .. Len(d.families) : d.families[k].queueCount > 0 /\ d.families[k].present

\* the first position of devices at which Q holds, VK_NULL_HANDLE when none
FirstWhere(devices, Q(_)) ==
    IF \E k \in 1 .. Len(devices) : Q(devices[k])
    THEN CHOOSE k \in 1 .. Len(devices) :
           Q(devices[k]) /\ \A j \in 1 .. (k - 1) : ~Q(devices[j])
    ELSE VK_NULL_HANDLE

Picked == pc # "pickPhysicalDevice"

\* what pickPhysicalDevice must have done if Q is what makes a device qualify
SelectsFirst(Q(_)) ==
    Picked =>
       IF FirstWhere(gpus, Q) = VK_NULL_HANDLE
       THEN pc = "thrown"
       ELSE pc = AfterSetup("pickPhysicalDevice") /\ physicalDevice = FirstWhere(gpus, Q)

\* C10 as claimed: a device qualifies when it has a graphics family and a
\* present family
ClaimedQualifies(d) == HasGraphicsFamily(d) /\ HasPresentFamily(d)
C10_FirstWithBothFamilies == SelectsFirst(ClaimedQualifies)

\* C10 amended: pickPhysicalDevice selects the first device in enumeration
\* order that has a graphics family and a present family and also lists the
\* swapchain extension and reports at least one surface format and one present
\* mode; it throws when there is no device or none qualifies.
Qualifies(d) ==
    /\ HasGraphicsFamily(d) /\ HasPresentFamily(d)
    /\ d.swapchainExtension /\ d.formats > 0 /\ d.presentModes > 0
C10_FirstSuitable == SelectsFirst(Qualifies)

\* C10 witness: the first of two qualifying devices has been selected
C10_Witness ==
    /\ Picked
    /\ Len(gpus) = 2
    /\ Qualifies(gpus[1]) /\ Qualifies(gpus[2])
    /\ physicalDevice = 1


\* createSwapChain has built its create info
Configured == pc # "createSwapChain"
Caps == surface.capabilities

\* C11: the image count createSwapChain requests is minImageCount + 1, except
\* that it is maxImageCount when maxImageCount > 0 and minImageCount + 1
\* exceeds it; minImageCount = 1 without a cap gives 2.
C11_RequestedImageCount ==
    Configured =>
      /\ createInfo.minImageCount =
           IF Caps.maxImageCount > 0 /\ Caps.minImageCount + 1 > Caps.maxImageCount
           THEN Caps.maxImageCount
           ELSE Caps.minImageCount + 1
      /\ (Caps.minImageCount = 1 /\ Caps.maxImageCount = 0) => createInfo.minImageCount = 2

\* C11 witness: minImageCount = 1 without a cap has yielded a request of 2
C11_Witness ==
    /\ Configured
    /\ Caps.minImageCount = 1 /\ Caps.maxImageCount = 0
    /\ createInfo.minImageCount = 2

C13_MailboxElseFifo ==
    Configured =>
      createInfo.presentMode =
        IF "VK_PRESENT_MODE_MAILBOX_KHR" \in Range(surface.presentModes)
        THEN "VK_PRESENT_MODE_MAILBOX_KHR"
        ELSE "VK_PRESENT_MODE_FIFO_KHR"

\* C13 witness: MAILBOX was last in a list of several modes and was chosen
C13_Witness ==
    /\ Configured
    /\ Len(surface.presentModes) >= 3
    /\ surface.presentModes[Len(surface.presentModes)] = "VK_PRESENT_MODE_MAILBOX_KHR"
    /\ createInfo.presentMode = "VK_PRESENT_MODE_MAILBOX_KHR"

\* C14 as claimed: for every non-empty list the chosen mode is in the list
C14_ModeAlwaysSupported ==
    Configured => createInfo.presentMode \in Range(surface.presentModes)

\* C14 amended: for every list that contains FIFO or MAILBOX the chosen mode
\* is a member of the list; a list of FIFO alone yields FIFO.
C14_ModeSupportedGivenFifo ==
    (/\ Configured
     /\ \/ "VK_PRESENT_MODE_FIFO_KHR" \in Range(surface.presentModes)
        \/ "VK_PRESENT_MODE_MAILBOX_KHR" \in Range(surface.presentModes)) =>
        /\ createInfo.presentMode \in Range(surface.presentModes)
        /\ surface.presentModes = <<"VK_PRESENT_MODE_FIFO_KHR">> =>
             createInfo.presentMode = "VK_PRESENT_MODE_FIFO_KHR"

\* C14 witness: a list of FIFO alone has yielded FIFO
C14_Witness ==
    /\ Configured
    /\ surface.presentModes = <<"VK_PRESENT_MODE_FIFO_KHR">>
    /\ createInfo.presentMode = "VK_PRESENT_MODE_FIFO_KHR"

\* v brought into [lo, hi]
Clamp(v, lo, hi) == IF v < lo THEN lo ELSE IF v > hi THEN hi ELSE v

ChosenFormat == [format |-> createInfo.imageFormat, colorSpace |-> createInfo.imageColorSpace]

\* C16: the chosen pair is the first one equal to (B8G8R8A8_SRGB,
\* SRGB_NONLINEAR) when the list has one, else the first pair of the list; it
\* is always a member of the list.
C16_FormatChoice ==
    Configured =>
      /\ ChosenFormat \in Range(surface.formats)
      /\ IF PreferredFormat \in Range(surface.formats)
         THEN ChosenFormat = PreferredFormat
         ELSE ChosenFormat = surface.formats[1]

\* C16 witness: the list began with the preferred format in another color
\* space, and the preferred pair further down was chosen
C16_Witness ==
    /\ Configured
    /\ surface.formats[1].format = PreferredFormat.format
    /\ surface.formats[1] # PreferredFormat
    /\ ChosenFormat = PreferredFormat

\* the queue family indices createSwapChain reads for the selected device
Indices == findQueueFamilies(gpus[physicalDevice])

ImageAvailableIdle(slot) ==
    /\ \A a \in acquirePending : a.semaphore # slot
    /\ \A b \in graphicsQueue : b.stage = "queued" => b.waitSemaphore # slot

\* no signal of slot's render-finished semaphore and no wait on it is pending
RenderFinishedIdle(slot) ==
    /\ \A b \in graphicsQueue : b.signalSemaphore # slot
    /\ \A k \in 1 .. Len(presentQueue) : presentQueue[k].waitSemaphore # slot

\* C18 as claimed: when drawFrame hands the slot's image-available semaphore
\* to acquire, or the slot's render-finished semaphore to submit, no earlier
\* signal of or wait on that semaphore is still pending; the present of the
\* slot's previous use has consumed the render-finished semaphore.
C18_SemaphoresIdleOnReuse ==
    /\ pc = "acquireNextImage" => ImageAvailableIdle(currentFrame)
    /\ pc = "queueSubmit" => RenderFinishedIdle(currentFrame)


\* the statements of drawFrame after the wait on the image's fence
AfterWaits == {"markImageInFlight", "resetFences", "queueSubmit", "queuePresent",
               "advanceFrame"}
StepAfterWaits ==
    markImageInFlight \/ resetFences \/ queueSubmit \/ queuePresent \/ advanceFrame

\* the acquire call returns with an image (the chain is not out of date)
AcquireReturnsImage == acquireNextImage /\ result' # "VK_ERROR_OUT_OF_DATE_KHR"

\* the CPU never waits in the statements after the image-fence wait
NeverWaitsAfterWaits == pc \in AfterWaits => ENABLED StepAfterWaits

C20_FrameLoopTerminates ==
    /\ (pc \in DrawSteps) ~> (pc \notin DrawSteps)
    /\ (closeObservedAt # -1) ~> (pc \in {"cleanup", "returned", "exited"})


\* submissions still pending that will signal fence f
PendingOn(f) == {b \in graphicsQueue : b.fence = f}

\* position of a call in the running iteration's trace, 0 when not made
TracePos(name) ==
    IF \E j \in 1 .. Len(trace) : trace[j][1] = name
    THEN CHOOSE j \in 1 .. Len(trace) : trace[j][1] = name
    ELSE 0

\* C21: when drawFrame resets the slot's fence, the fence is signaled and no
\* pending submission will signal it; when drawFrame passes the slot's fence
\* to vkQueueSubmit, the fence is unsignaled (and still unattached); and the
\* call that follows the reset in an iteration is the submit, so no fence is
\* waited on in between.
C21_ResetThenSubmit ==
    /\ pc = "resetFences" =>
         /\ fenceSignaled[FenceOf(currentFrame)]
         /\ PendingOn(FenceOf(currentFrame)) = {}
    /\ pc = "queueSubmit" =>
         /\ ~fenceSignaled[FenceOf(currentFrame)]
         /\ PendingOn(FenceOf(currentFrame)) = {}
         /\ trace[Len(trace)][1] = "resetFences"
    /\ TracePos("resetFences") # 0 /\ Len(trace) > TracePos("resetFences") =>
         trace[TracePos("resetFences") + 1][1] = "queueSubmit"

\* C21 witness: the slot is in its second use, its fence has been reset and is
\* about to be submitted again while the other slot's submission is pending
C21_Witness ==
    /\ pc = "queueSubmit"
    /\ frameNo >= MAX_FRAMES_IN_FLIGHT
    /\ ~fenceSignaled[FenceOf(currentFrame)]
    /\ trace[Len(trace)][1] = "resetFences"
    /\ PendingOn(FenceOf(NextFrame(currentFrame))) # {}


\* images the application has acquired and not yet handed to vkQueuePresentKHR
AcquiredImages == {img \in 0 .. (imageCount - 1) : imageOwner[img + 1] = "application"}

\* C22 as claimed: from the acquire to the present call of an iteration the
\* image index drawFrame uses is the one image that iteration's acquire
\* returned, the submission and the presentation request of the iteration
\* carry that index, and outside that span no image is acquired and
\* unpresented (so never more than one).
C22_AcquiredImageUsed ==
    /\ Cardinality(AcquiredImages) <= 1
    /\ pc \in {"checkImageInFlight", "markImageInFlight", "resetFences",
               "queueSubmit", "queuePresent"} =>
         AcquiredImages = {imageIndex}
    /\ pc \in DrawSteps \ {"checkImageInFlight", "markImageInFlight", "resetFences",
                           "queueSubmit", "queuePresent"} =>
         AcquiredImages = {}
    /\ pc = "queuePresent" =>
         \A b \in graphicsQueue : b.id = frameNo => b.commandBuffer \in AcquiredImages
    /\ pc = "advanceFrame" =>
         /\ Len(presentQueue) > 0 /\ presentQueue[Len(presentQueue)].id = frameNo =>
              presentQueue[Len(presentQueue)].image = imageIndex
         /\ \A k \in 1 .. Len(presentQueue) :
              presentQueue[k].id = frameNo => k = Len(presentQueue)


\* the objects in the order the claim lists them, by the call that creates each
ListedOrder == <<"createInstance", "createSurface", "pickPhysicalDevice",
                 "createLogicalDevice", "createSwapChain", "createImageViews",
                 "createRenderPass", "createGraphicsPipeline", "createFramebuffers",
                 "createCommandPool", "createCommandBuffers", "createSyncObjects">>
IsListed(s) == \E k \in 1 .. Len(ListedOrder) : ListedOrder[k] = s

\* C23: every setup call runs only after the calls whose objects it reads
\* have returned, the listed objects come into being in the listed order, each
\* once, and drawFrame runs only after every setup call has returned.
C23_SetupOneDirection ==
    /\ \A k \in 1 .. Len(created) :
         BuiltFrom(created[k]) \subseteq {created[j] : j \in 1 .. (k - 1)}
    /\ pc \in SetupSteps => BuiltFrom(pc) \subseteq {created[j] : j \in 1 .. Len(created)}
    /\ LET made == SelectSeq(created, IsListed)
       IN /\ Len(made) <= Len(ListedOrder)
          /\ made = SubSeq(ListedOrder, 1, Len(made))
          /\ (pc \in DrawSteps \/ frameNo > 0) => made = ListedOrder

\* C23 witness: the first drawFrame is about to run, all of initVulkan done
C23_Witness ==
    /\ pc = "waitForFences"
    /\ frameNo = 0
    /\ Len(created) = Len(ListedOrder) + 1
    /\ created[Len(created)] = "createSyncObjects"


\* the objects initVulkan has created so far
CreatedObjects == UNION {CreatedBy(created[k]) : k \in 1 .. Len(created)}

\* position of an object in the order of destruction, 0 when not destroyed
DestroyedAt(obj) ==
    IF \E k \in 1 .. Len(destroyed) : destroyed[k] = obj
    THEN CHOOSE k \in 1 .. Len(destroyed) : destroyed[k] = obj
    ELSE 0

\* kinds of objects created from the logical device
DeviceChildren == {"imageAvailableSemaphore", "renderFinishedSemaphore", "inFlightFence",
                   "commandPool", "framebuffer", "graphicsPipeline", "pipelineLayout",
                   "renderPass", "imageView", "swapChain"}
\* kinds of objects created from the instance
InstanceChildren == {"device", "debugMessenger", "surface"}

\* C24: once cleanup has run, every object initVulkan created has been
\* destroyed exactly once (and nothing else but the window), every object
\* created from the logical device before the device, the device, the debug
\* messenger and the surface before the instance, and after the device only
\* the rest of the device context and the window are destroyed.
C24_CleanupOrder ==
    destroyed # <<>> =>
      /\ {destroyed[k] : k \in 1 .. Len(destroyed)} = CreatedObjects \cup {<<"window", 0>>}
      /\ \A j, k \in 1 .. Len(destroyed) : destroyed[j] = destroyed[k] => j = k
      /\ \A k \in 1 .. Len(destroyed) :
           /\ destroyed[k][1] \in DeviceChildren => k < DestroyedAt(<<"device", 0>>)
           /\ destroyed[k][1] \in InstanceChildren => k < DestroyedAt(<<"instance", 0>>)
           /\ k > DestroyedAt(<<"device", 0>>) =>
                destroyed[k][1] \in {"debugMessenger", "surface", "instance", "window"}
           /\ k > DestroyedAt(<<"instance", 0>>) => destroyed[k][1] = "window"
      /\ DestroyedAt(<<"device", 0>>) # 0
      /\ DestroyedAt(<<"instance", 0>>) # 0

\* C24 witness: a run with validation layers and several swapchain images has
\* returned from cleanup
C24_Witness ==
    /\ pc = "returned"
    /\ enableValidationLayers
    /\ imageCount >= 2
    /\ DestroyedAt(<<"debugMessenger", 0>>) # 0
    /\ DestroyedAt(<<"framebuffer", imageCount - 1>>) # 0


\* initVulkan has returned
InitVulkanDone == Len(created) = Len(SetupOrder)

\* C25: once initVulkan has returned, for the rest of the run, there are as
\* many image views, framebuffers, command buffers and per-image fence
\* references as the swapchain reported images; view k is of image k,
\* framebuffer k holds view k and command buffer k renders into framebuffer
\* k; before the first drawFrame no image has a fence recorded; and every
\* index an acquire returned names a command buffer and a fence reference.
C25_PerImageContainers ==
    InitVulkanDone =>
      /\ Len(swapChainImageViews) = imageCount
      /\ Len(swapChainFramebuffers) = imageCount
      /\ Len(commandBuffers) = imageCount
      /\ Len(imagesInFlight) = imageCount
      /\ \A k \in 1 .. imageCount :
           /\ swapChainImageViews[k] = k - 1
           /\ swapChainFramebuffers[k] = k - 1
           /\ commandBuffers[k] = k - 1
           /\ slotsUsed = <<>> => imagesInFlight[k] = VK_NULL_HANDLE
      /\ \A img \in AcquiredImages :
           img + 1 \in DOMAIN commandBuffers /\ img + 1 \in DOMAIN imagesInFlight
      /\ \A a \in acquirePending :
           a.image + 1 \in DOMAIN commandBuffers /\ a.image + 1 \in DOMAIN imagesInFlight

\* C25 witness: the acquire of an iteration returned the last image of a
\* three-image chain and the iteration is about to submit its command buffer
C25_Witness ==
    /\ pc = "queueSubmit"
    /\ imageCount = 3
    /\ AcquiredImages = {imageCount - 1}
    /\ imageIndex = imageCount - 1
    /\ commandBuffers[imageIndex + 1] = imageIndex


\* what setup built: the calls that returned, the selected device, the
\* swapchain and its per-image views, framebuffers and command buffers
SetupObjects == <<created, physicalDevice, imageCount, createInfo, swapChainImageViews,
                  swapChainFramebuffers, commandBuffers>>

\* C26: from the loop's first test until the loop is left, no step changes
\* what setup built and nothing is destroyed: the command buffers recorded by
\* createCommandBuffers, the swapchain, the image views and the framebuffers
\* stay as they are; what changes is the slot index, the fence references,
\* the fences and the semaphores (and the work queued on the device).
C26_FrameLeavesSetupAlone ==
    [][(pc \in DrawSteps \cup {"mainLoop"}) =>
          /\ UNCHANGED SetupObjects
          /\ UNCHANGED <<destroyed, waitIdleReturned, exitStatus, surface, gpus,
                         enableValidationLayers>>
          /\ pc' \in DrawSteps \cup {"mainLoop", AfterLoop, "thrown", "crashed"}]_vars

\* C26 witness: the second iteration has changed the slot index and recorded
\* fences for two images, with everything setup built in place
C26_Witness ==
    /\ pc = "mainLoop"
    /\ frameNo = 2
    /\ InitVulkanDone
    /\ destroyed = <<>>
    /\ Len(commandBuffers) = imageCount
    /\ \E j, k \in 1 .. imageCount :
         j # k /\ imagesInFlight[j] # VK_NULL_HANDLE /\ imagesInFlight[k] # VK_NULL_HANDLE


\* the queue families createLogicalDevice asked queues for
RequestedFamilies ==
    {logicalDevice.queueCreateInfos[k].queueFamilyIndex :
        k \in 1 .. Len(logicalDevice.queueCreateInfos)}

\* C27: the logical device is created with one request, for one queue, per
\* distinct family among the graphics and the present family of the selected
\* device (one request when they are the same family, two when they differ,
\* never two for one family), and both queue handles are fetched at queue
\* index 0 of their family.
C27_QueueRequests ==
    logicalDevice # <<>> =>
      LET indices == findQueueFamilies(gpus[physicalDevice])
          g == indices.graphicsFamily[1]
          p == indices.presentFamily[1]
          infos == logicalDevice.queueCreateInfos
      IN /\ RequestedFamilies = {g, p}
         /\ Len(infos) = IF g = p THEN 1 ELSE 2
         /\ \A j, k \in 1 .. Len(infos) :
              infos[j].queueFamilyIndex = infos[k].queueFamilyIndex => j = k
         /\ \A k \in 1 .. Len(infos) : infos[k].queueCount = 1
         /\ logicalDevice.graphicsQueue = [queueFamilyIndex |-> g, queueIndex |-> 0]
         /\ logicalDevice.presentQueue = [queueFamilyIndex |-> p, queueIndex |-> 0]

\* C27 witness: the selected device, not the first enumerated, has one family
\* for both graphics and present, and the logical device has been created
C27_Witness ==
    /\ logicalDevice # <<>>
    /\ physicalDevice > 1
    /\ Len(logicalDevice.queueCreateInfos) = 1
    /\ logicalDevice.graphicsQueue = logicalDevice.presentQueue


\* the families of d with queues that support graphics / presenting
GraphicsCapable(d) ==
    {k \in 1 .. Len(d.families) : d.families[k].queueCount > 0 /\ d.families[k].graphics}
PresentCapable(d) ==
    {k \in 1 .. Len(d.families) : d.families[k].queueCount > 0 /\ d.families[k].present}

\* the number of leading families of d that hold both a graphics-capable and a
\* present-capable family, taken as short as possible
FirstComplete(d) ==
    CHOOSE n \in 1 .. Len(d.families) :
      /\ \E g \in GraphicsCapable(d) : g <= n
      /\ \E p \in PresentCapable(d) : p <= n
      /\ \A m \in 1 .. (n - 1) :
           ~ ((\E g \in GraphicsCapable(d) : g <= m) /\ (\E p \in PresentCapable(d) : p <= m))

\* C29: for every enumerated device, findQueueFamilies returns a complete
\* result exactly when some family with queues supports graphics and some
\* family with queues supports presenting; a complete result names a
\* graphics-capable and a present-capable family with queues, and the loop
\* examines no family after the first at which the result became complete.
C29_FindQueueFamilies ==
    Picked =>
      \A k \in 1 .. Len(gpus) :
        LET d == gpus[k]
            r == findQueueFamiliesLoop(d)
            indices == findQueueFamilies(d)
        IN /\ isComplete(indices) <=> (HasGraphicsFamily(d) /\ HasPresentFamily(d))
           /\ isComplete(indices) =>
                /\ indices.graphicsFamily[1] + 1 \in GraphicsCapable(d)
                /\ indices.presentFamily[1] + 1 \in PresentCapable(d)
                /\ r.examined = FirstComplete(d)
           /\ ~ isComplete(indices) => r.examined = Len(d.families)

\* C29 witness: the selected device reports a family after the one at which
\* its result became complete
C29_Witness ==
    /\ Picked /\ physicalDevice # VK_NULL_HANDLE
    /\ isComplete(findQueueFamilies(gpus[physicalDevice]))
    /\ findQueueFamiliesLoop(gpus[physicalDevice]).examined < Len(gpus[physicalDevice].families)


\* the setup calls that follow pickPhysicalDevice
AfterPick == {SetupOrder[k] : k \in (StepNo("pickPhysicalDevice") + 1) .. Len(SetupOrder)}

\* C30: createLogicalDevice and createSwapChain are reached only with a
\* selected GPU for which findQueueFamilies is complete, the swapchain
\* extension is supported and the surface format list and the present mode
\* list queried for it are non-empty, so chooseSwapSurfaceFormat has a first
\* element to return and the value() reads of the two family indices find a
\* value.
C30_SwapChainInputs ==
    (pc \in AfterPick \/ createInfo # <<>>) =>
      /\ physicalDevice \in 1 .. Len(gpus)
      /\ LET indices == findQueueFamilies(gpus[physicalDevice])
             swapChainSupport == querySwapChainSupport(physicalDevice)
         IN /\ isComplete(indices)
            /\ Len(indices.graphicsFamily) = 1 /\ Len(indices.presentFamily) = 1
            /\ checkDeviceExtensionSupport(gpus[physicalDevice])
            /\ Len(swapChainSupport.formats) > 0
            /\ Len(swapChainSupport.presentModes) > 0

\* C30 witness: createSwapChain has built its create info for the second
\* device, the first having complete queue families and the swapchain
\* extension but no surface format
C30_Witness ==
    /\ createInfo # <<>>
    /\ physicalDevice = 2
    /\ isComplete(findQueueFamilies(gpus[1]))
    /\ checkDeviceExtensionSupport(gpus[1])
    /\ gpus[1].formats = 0
    /\ createInfo.imageFormat = chooseSwapSurfaceFormat(querySwapChainSupport(2).formats).format


\* C28: the validation layer is purely observational: on the same inputs the
\* build with validation and the build without it take every setup call the
\* same way, returning or throwing, and tear down the same objects in the same
\* order, the debug messenger apart.
C28_ValidationObservational ==
    \A k \in 1 .. Len(twin) : SameOutcome(twin[k])

====
